---- MODULE Spec2Model ----
(***************************************************************************)
(* Model of src/src/template.rs: the virtual DOM data types and the        *)
(* template! / inner_template! macros that expand an Emmet-like            *)
(* abbreviation into a VirtualElement.                                     *)
(*                                                                         *)
(* An abbreviation is a sequence of tokens at the level of the macro's     *)
(* arms: a bare identifier, .ident, #ident, a [key=value ...] list, a      *)
(* {value} binding, the operators > and +, and a parenthesised group that  *)
(* holds a token sequence of its own.  A macro invocation that no arm      *)
(* matches does not compile: no tree exists.                               *)
(***************************************************************************)
EXTENDS Integers, Sequences, FiniteSets, TLC

VARIABLES expr, pc, el, siblings, created

vars == <<expr, pc, el, siblings, created>>

(***************************************************************************)
(* Tokens                                                                  *)
(***************************************************************************)
Ident(n) == [k |-> "ident", id |-> n]
Dot(c) == [k |-> "class", id |-> c]
Hash(i) == [k |-> "id", id |-> i]
Bracket(pairs) == [k |-> "attrs", pairs |-> pairs]
Brace(v) == [k |-> "bind", val |-> v]
Gt == [k |-> "gt"]
Plus == [k |-> "plus"]
Paren(inner) == [k |-> "group", inner |-> inner]

\* The values of Rust expressions inside {..} and [key=..]: integers and
\* string slices, the two kinds the tests bind.
IntVal(n) == [t |-> "int", n |-> n]
StrVal(s) == [t |-> "str", s |-> s]

(***************************************************************************)
(* ToString                                                                *)
(***************************************************************************)
DigitStr(d) ==
  CASE d = 0 -> "0" [] d = 1 -> "1" [] d = 2 -> "2" [] d = 3 -> "3"
    [] d = 4 -> "4" [] d = 5 -> "5" [] d = 6 -> "6" [] d = 7 -> "7"
    [] d = 8 -> "8" [] d = 9 -> "9"

RECURSIVE NatToString(_)
NatToString(n) ==
  IF n < 10 THEN DigitStr(n) ELSE NatToString(n \div 10) \o DigitStr(n % 10)

to_string(v) ==
  IF v.t = "int"
    THEN IF v.n < 0 THEN "-" \o NatToString(0 - v.n) ELSE NatToString(v.n)
    ELSE v.s

(***************************************************************************)
(* Tree model                                                              *)
(***************************************************************************)
Text(s) == [type |-> "Text", text |-> s]
Element(e) == [type |-> "Element", element |-> e]

EmptyMap == [x \in {} |-> ""]

VirtualElement_new ==
  [name |-> "div", attributes |-> EmptyMap, child_nodes |-> <<>>]

VirtualDom_from(v) == <<Text(to_string(v))>>

\* HashMap::insert
insert(m, key, val) ==
  [x \in (DOMAIN m) \cup {key} |-> IF x = key THEN val ELSE m[x]]

(***************************************************************************)
(* inner_template!: one operator per macro arm, tried in source order.     *)
(* Each returns ok (an arm matched everywhere below), the current element  *)
(* after the closure ran, the Vec of sibling nodes the closure returned,   *)
(* and made, the number of VirtualElement::new() calls the closure ran.    *)
(***************************************************************************)
RECURSIVE inner_template(_, _, _)

Rest(toks, n) == SubSeq(toks, n + 1, Len(toks))

NoRuleMatches(e) == [ok |-> FALSE, el |-> e, sibs |-> <<>>, made |-> 0]

ArmEmpty(tl, toks, e) == [ok |-> TRUE, el |-> e, sibs |-> <<>>, made |-> 0]

RECURSIVE InsertAll(_, _)
InsertAll(m, pairs) ==
  IF pairs = <<>> THEN m
  ELSE InsertAll(insert(m, pairs[1][1], to_string(pairs[1][2])), Tail(pairs))

\* ArmAttributes that builds the map anew from the list's pairs.
ArmAttributes_replaces(tl, toks, e) ==
  inner_template(tl, Rest(toks, 1),
                 [e EXCEPT !.attributes = InsertAll(EmptyMap, toks[1].pairs)])

ArmAttributes(tl, toks, e) ==
  inner_template(tl, Rest(toks, 1),
                 [e EXCEPT !.attributes = InsertAll(@, toks[1].pairs)])

\* ArmChildGroup that expands the tokens after the group against the new child.
ArmChildGroup_rest_on_child(tl, toks, e) ==
  LET p == inner_template("not_top_level", toks[2].inner, VirtualElement_new)
      r == inner_template("not_top_level", Rest(toks, 2), p.el)
  IN [ok |-> p.ok /\ r.ok,
      el |-> [e EXCEPT !.child_nodes =
                ((@ \o <<Element(r.el)>>) \o p.sibs) \o r.sibs],
      sibs |-> <<>>,
      made |-> (1 + p.made) + r.made]

ArmChildGroup(tl, toks, e) ==
  LET p == inner_template("not_top_level", toks[2].inner, VirtualElement_new)
      e1 == [e EXCEPT !.child_nodes = (@ \o <<Element(p.el)>>) \o p.sibs]
      r == inner_template("not_top_level", Rest(toks, 2), e1)
  IN [ok |-> p.ok /\ r.ok,
      el |-> [r.el EXCEPT !.child_nodes = @ \o r.sibs],
      sibs |-> <<>>,
      made |-> (1 + p.made) + r.made]

\* ArmChild that hands the child's siblings to its caller.
ArmChild_returns_siblings(tl, toks, e) ==
  LET r == inner_template("not_top_level", Rest(toks, 1), VirtualElement_new)
  IN [ok |-> r.ok,
      el |-> [e EXCEPT !.child_nodes = @ \o <<Element(r.el)>>],
      sibs |-> r.sibs,
      made |-> 1 + r.made]

\* ArmChild that puts the child after its siblings.
ArmChild_child_last(tl, toks, e) ==
  LET r == inner_template("not_top_level", Rest(toks, 1), VirtualElement_new)
  IN [ok |-> r.ok,
      el |-> [e EXCEPT !.child_nodes = (@ \o r.sibs) \o <<Element(r.el)>>],
      sibs |-> <<>>,
      made |-> 1 + r.made]

ArmChild(tl, toks, e) ==
  LET r == inner_template("not_top_level", Rest(toks, 1), VirtualElement_new)
  IN [ok |-> r.ok,
      el |-> [e EXCEPT !.child_nodes = (@ \o <<Element(r.el)>>) \o r.sibs],
      sibs |-> <<>>,
      made |-> 1 + r.made]

\* The group's own tokens are matched but never expanded: both expansions
\* take the tokens after the group.
ArmSiblingGroup(tl, toks, e) ==
  LET p == inner_template("not_top_level", Rest(toks, 2), VirtualElement_new)
      r == inner_template("not_top_level", Rest(toks, 2), e)
  IN [ok |-> p.ok /\ r.ok,
      el |-> r.el,
      sibs |-> (<<Element(p.el)>> \o p.sibs) \o r.sibs,
      made |-> (1 + p.made) + r.made]

ArmSibling(tl, toks, e) ==
  LET r == inner_template("not_top_level", Rest(toks, 1), VirtualElement_new)
  IN [ok |-> r.ok,
      el |-> e,
      sibs |-> <<Element(r.el)>> \o r.sibs,
      made |-> 1 + r.made]

\* ArmBind that puts the bound nodes in front of the children.
ArmBind_prepends(tl, toks, e) ==
  inner_template(tl, Rest(toks, 1),
                 [e EXCEPT !.child_nodes = VirtualDom_from(toks[1].val) \o @])

ArmBind(tl, toks, e) ==
  inner_template(tl, Rest(toks, 1),
                 [e EXCEPT !.child_nodes = @ \o VirtualDom_from(toks[1].val)])

\* ArmClass with the operands of the concatenation swapped.
ArmClass_prepends(tl, toks, e) ==
  LET classes == IF "class" \in DOMAIN e.attributes
                   THEN (toks[1].id \o " ") \o e.attributes["class"]
                   ELSE toks[1].id
  IN inner_template(tl, Rest(toks, 1),
                    [e EXCEPT !.attributes = insert(@, "class", classes)])

ArmClass(tl, toks, e) ==
  LET classes == IF "class" \in DOMAIN e.attributes
                   THEN (e.attributes["class"] \o " ") \o toks[1].id
                   ELSE toks[1].id
  IN inner_template(tl, Rest(toks, 1),
                    [e EXCEPT !.attributes = insert(@, "class", classes)])

\* ArmId that leaves an id already set in place.
ArmId_keeps_first(tl, toks, e) ==
  inner_template(tl, Rest(toks, 1),
                 [e EXCEPT !.attributes =
                    IF "id" \in DOMAIN @ THEN @ ELSE insert(@, "id", toks[1].id)])

ArmId(tl, toks, e) ==
  inner_template(tl, Rest(toks, 1),
                 [e EXCEPT !.attributes = insert(@, "id", toks[1].id)])

ArmName(tl, toks, e) ==
  inner_template(tl, Rest(toks, 1), [e EXCEPT !.name = toks[1].id])

FollowedByGroup(toks) == Len(toks) >= 2 /\ toks[2].k = "group"

inner_template(tl, toks, e) ==
  IF toks = <<>> THEN ArmEmpty(tl, toks, e)
  ELSE IF toks[1].k = "attrs" THEN ArmAttributes(tl, toks, e)
  ELSE IF toks[1].k = "gt" /\ FollowedByGroup(toks) THEN ArmChildGroup(tl, toks, e)
  ELSE IF toks[1].k = "gt" THEN ArmChild(tl, toks, e)
  ELSE IF tl = "not_top_level" /\ toks[1].k = "plus" /\ FollowedByGroup(toks)
    THEN ArmSiblingGroup(tl, toks, e)
  ELSE IF tl = "not_top_level" /\ toks[1].k = "plus" THEN ArmSibling(tl, toks, e)
  ELSE IF toks[1].k = "bind" THEN ArmBind(tl, toks, e)
  ELSE IF toks[1].k = "class" THEN ArmClass(tl, toks, e)
  ELSE IF toks[1].k = "id" THEN ArmId(tl, toks, e)
  ELSE IF toks[1].k = "ident" THEN ArmName(tl, toks, e)
  ELSE NoRuleMatches(e)

\* template!: a fresh element, the top-level expansion applied to it, the
\* returned sibling list dropped.  When the expansion fails there is no tree.
\* template! that expands as if below the top level.
template_nested(toks) ==
  LET r == inner_template("not_top_level", toks, VirtualElement_new)
  IN IF r.ok THEN [r EXCEPT !.made = 1 + @] ELSE NoRuleMatches(VirtualElement_new)

template(toks) ==
  LET r == inner_template("top_level", toks, VirtualElement_new)
  IN IF r.ok THEN [r EXCEPT !.made = 1 + @] ELSE NoRuleMatches(VirtualElement_new)

(***************************************************************************)
(* Bounded inputs                                                          *)
(***************************************************************************)
MaxLen == 4

RECURSIVE SeqsUpTo(_, _)
SeqsUpTo(S, n) ==
  IF n = 0 THEN {<<>>}
  ELSE LET shorter == SeqsUpTo(S, n - 1)
       IN shorter \cup {Append(s, x) : s \in {t \in shorter : Len(t) = n - 1}, x \in S}

FlatToks == {Ident("span"), Dot("c"), Brace(IntVal(4)), Gt, Plus}

GroupToks ==
  {Paren(<<Ident("a")>>),
   Paren(<<Ident("a"), Gt, Dot("c")>>),
   Paren(<<Hash("i"), Plus, Ident("b")>>)}

Exprs == SeqsUpTo(FlatToks \cup GroupToks, MaxLen)

(***************************************************************************)
(* The state machine: one abbreviation is chosen, template! is applied.    *)
(***************************************************************************)
Start(inputs) ==
  /\ expr \in inputs
  /\ pc = "start"
  /\ el = VirtualElement_new
  /\ siblings = <<>>
  /\ created = 0

Init == Start(Exprs)

Template ==
  /\ pc = "start"
  /\ LET r == template(expr)
     IN /\ pc' = IF r.ok THEN "done" ELSE "error"
        /\ el' = r.el
        /\ siblings' = r.sibs
        /\ created' = r.made
  /\ UNCHANGED expr

Next == Template

Spec == Init /\ [][Next]_vars

(***************************************************************************)
(* Single-element abbreviations: runs of name, class, id, attribute-list   *)
(* and binding tokens.                                                     *)
(***************************************************************************)
MaxRun == 3

AttrLists ==
  {<<>>,
   << <<"width", IntVal(44)>> >>,
   << <<"width", IntVal(1)>>, <<"width", StrVal("auto")>> >>,
   << <<"class", StrVal("x")>> >>,
   << <<"id", StrVal("y")>> >>}

BindVals == {StrVal("x"), IntVal(4), IntVal(-12)}

RunToks ==
  {Ident("a"), Ident("span"), Dot("a"), Dot("b"), Hash("a"), Hash("b")}
    \cup {Bracket(l) : l \in AttrLists}
    \cup {Brace(v) : v \in BindVals}

Runs == SeqsUpTo(RunToks, MaxRun)

InitRun == Start(Runs)

SpecRun == InitRun /\ [][Next]_vars

SimpleKinds == {"ident", "class", "id", "attrs", "bind"}

IsRun(toks) == \A i \in 1..Len(toks) : toks[i].k \in SimpleKinds

OfKind(toks, kind) == SelectSeq(toks, LAMBDA t : t.k = kind)

RECURSIVE Join(_)
Join(ss) ==
  IF ss = <<>> THEN ""
  ELSE IF Len(ss) = 1 THEN ss[1]
  ELSE (ss[1] \o " ") \o Join(Tail(ss))

ClassIdents(toks) ==
  LET cs == OfKind(toks, "class") IN [i \in 1..Len(cs) |-> cs[i].id]

HasKey(t, key) ==
  t.k = "attrs" /\ \E j \in 1..Len(t.pairs) : t.pairs[j][1] = key

\* The position of the last attribute list that assigns key, 0 when none does.
LastListWith(toks, key) ==
  LET is == {i \in 1..Len(toks) : HasKey(toks[i], key)}
  IN IF is = {} THEN 0 ELSE CHOOSE i \in is : \A j \in is : j <= i

\* What the attribute list t leaves under key: its last pair with that key.
ListValue(t, key) ==
  LET js == {j \in 1..Len(t.pairs) : t.pairs[j][1] = key}
      last == CHOOSE j \in js : \A h \in js : h <= j
  IN t.pairs[last][2]

\* The text the tests and the Rust ToString impls give for the bound values.
Rendered(v) ==
  CASE v = StrVal("x") -> "x"
    [] v = StrVal("y") -> "y"
    [] v = StrVal("auto") -> "auto"
    [] v = IntVal(1) -> "1"
    [] v = IntVal(4) -> "4"
    [] v = IntVal(44) -> "44"
    [] v = IntVal(-12) -> "-12"

(***************************************************************************)
(* C4                                                                      *)
(***************************************************************************)
\* C4 as stated: after a run of tokens on one element, the class attribute, if
\* present, is the space-joined concatenation of the run's class tokens in
\* order, whatever id tokens and attribute lists (those with key class
\* included) are interleaved.
C4_ClassIsJoinOfClassTokens ==
  (pc = "done" /\ IsRun(expr)) =>
    ("class" \in DOMAIN el.attributes =>
       el.attributes["class"] = Join(ClassIdents(expr)))

\* C4 amended: the class attribute is the space-joined concatenation of the
\* class tokens in order, without deduplication, regardless of id tokens and of
\* attribute lists with other keys; an attribute list with key class replaces
\* the value accumulated so far by its own value, and the class tokens after it
\* are appended to that value.  The attribute is absent when neither occurs.
C4_ClassIsJoinSinceLastAssignment ==
  (pc = "done" /\ IsRun(expr)) =>
    LET i == LastListWith(expr, "class")
        after == ClassIdents(Rest(expr, i))
        parts == IF i = 0 THEN after
                 ELSE <<Rendered(ListValue(expr[i], "class"))>> \o after
    IN IF parts = <<>> THEN "class" \notin DOMAIN el.attributes
       ELSE /\ "class" \in DOMAIN el.attributes
            /\ el.attributes["class"] = Join(parts)

\* Two class tokens, the same one twice among them, interleaved with an id
\* token: the attribute holds both, in order, not deduplicated.
C4_Witness ==
  /\ pc = "done"
  /\ expr = <<Dot("b"), Hash("a"), Dot("b")>>
  /\ el.attributes["class"] = "b b"

(***************************************************************************)
(* C5                                                                      *)
(***************************************************************************)
AttributeKinds == {"class", "id", "attrs"}

OnlyAttributeTokens(toks) ==
  \A i \in 1..Len(toks) : toks[i].k \in AttributeKinds

\* The rearrangements of toks that keep tokens of one kind in their order.
Reorderings(toks) ==
  LET n == Len(toks)
      perms == {f \in [1..n -> 1..n] :
                  /\ \A i, j \in 1..n : i # j => f[i] # f[j]
                  /\ \A i, j \in 1..n :
                       (i < j /\ toks[f[i]].k = toks[f[j]].k) => f[i] < f[j]}
  IN {[i \in 1..n |-> toks[f[i]]] : f \in perms}

\* C5 as stated: two runs of class, id and attribute-list tokens that hold the
\* same tokens and keep the relative order of tokens of the same kind give
\* structurally equal elements, for every choice of identifiers and keys.
C5_OrderIndependent ==
  (pc = "done" /\ OnlyAttributeTokens(expr)) =>
    \A other \in Reorderings(expr) :
      template(other).ok /\ template(other).el = el

\* C5 amended: the same, for runs whose attribute lists assign neither the key
\* class nor the key id.
C5_OrderIndependentOtherKeys ==
  (/\ pc = "done"
   /\ OnlyAttributeTokens(expr)
   /\ LastListWith(expr, "class") = 0
   /\ LastListWith(expr, "id") = 0) =>
    \A other \in Reorderings(expr) :
      template(other).ok /\ template(other).el = el

\* A class token, an id token and an attribute list: the run with the list
\* moved to the front is one of its reorderings.
C5_Witness ==
  /\ pc = "done"
  /\ expr = <<Dot("a"), Hash("b"), Bracket(<< <<"width", IntVal(44)>> >>)>>
  /\ <<Bracket(<< <<"width", IntVal(44)>> >>), Dot("a"), Hash("b")>>
        \in Reorderings(expr)
  /\ DOMAIN el.attributes = {"class", "id", "width"}

(***************************************************************************)
(* C6                                                                      *)
(***************************************************************************)
BoundTexts(toks) ==
  LET bs == OfKind(toks, "bind")
  IN [i \in 1..Len(bs) |-> Text(Rendered(bs[i].val))]

WithoutBindings(toks) == SelectSeq(toks, LAMBDA t : t.k # "bind")

\* C6: a single-element abbreviation with k bindings, however interleaved with
\* name, class, id and attribute tokens, yields exactly the k Text nodes of the
\* bound values' text renderings, in binding order; the name and the
\* attributes are those of the abbreviation without its bindings.
C6_BindingsAppendText ==
  (pc = "done" /\ IsRun(expr)) =>
    /\ el.child_nodes = BoundTexts(expr)
    /\ el.name = template(WithoutBindings(expr)).el.name
    /\ el.attributes = template(WithoutBindings(expr)).el.attributes

\* Two bindings, a string and a number, around a class token.
C6_Witness ==
  /\ pc = "done"
  /\ expr = <<Brace(StrVal("x")), Dot("a"), Brace(IntVal(4))>>
  /\ el.child_nodes = <<Text("x"), Text("4")>>
  /\ el.name = "div"

(***************************************************************************)
(* C7                                                                      *)
(***************************************************************************)
\* The position of the last token of the kind, 0 when there is none.
LastOfKind(toks, kind) ==
  LET is == {i \in 1..Len(toks) : toks[i].k = kind}
  IN IF is = {} THEN 0 ELSE CHOOSE i \in is : \A j \in is : j <= i

\* C7 as stated: when id tokens are applied more than once to an element, its
\* id attribute is the identifier of the last id token, whatever class tokens
\* and attribute lists are interleaved.
C7_LastIdTokenWins ==
  (pc = "done" /\ IsRun(expr) /\ Len(OfKind(expr, "id")) >= 2) =>
    /\ "id" \in DOMAIN el.attributes
    /\ el.attributes["id"] = expr[LastOfKind(expr, "id")].id

\* C7 amended: when id tokens are applied more than once to an element, its id
\* attribute is the identifier of the last id token, whatever class tokens and
\* attribute lists with other keys are interleaved; an attribute list with key
\* id that comes after the last id token replaces it by its own value.
C7_LastIdAssignmentWins ==
  (pc = "done" /\ IsRun(expr) /\ Len(OfKind(expr, "id")) >= 2) =>
    /\ "id" \in DOMAIN el.attributes
    /\ el.attributes["id"] =
         IF LastListWith(expr, "id") > LastOfKind(expr, "id")
           THEN Rendered(ListValue(expr[LastListWith(expr, "id")], "id"))
           ELSE expr[LastOfKind(expr, "id")].id

\* Two different id tokens around a class token.
C7_Witness ==
  /\ pc = "done"
  /\ expr = <<Hash("a"), Dot("b"), Hash("b")>>
  /\ el.attributes["id"] = "b"

(***************************************************************************)
(* C2, C9, C10: abbreviations with operators and groups                    *)
(***************************************************************************)
\* A + outside every group with no > before it.
HasTopLevelPlus(toks) ==
  \E i \in 1..Len(toks) :
    /\ toks[i].k = "plus"
    /\ \A j \in 1..(i - 1) : toks[j].k # "gt"

\* C2: an abbreviation with a + outside every group and with no > before it
\* is rejected, whatever name, class, id, attribute and binding tokens come
\* before the +: the expansion fails and no tree is returned.
C2_TopLevelPlusRejected ==
  (pc # "start" /\ HasTopLevelPlus(expr)) =>
    /\ pc = "error"
    /\ ~template(expr).ok
    /\ created = 0

\* span.c+span
C2_Witness ==
  /\ pc = "error"
  /\ expr = <<Ident("span"), Dot("c"), Plus, Ident("span")>>

RECURSIVE CountElements(_)
RECURSIVE CountElementNodes(_)
\* The number of Element nodes in a tree, its root included.
CountElements(e) == 1 + CountElementNodes(e.child_nodes)
CountElementNodes(nodes) ==
  IF nodes = <<>> THEN 0
  ELSE (IF nodes[1].type = "Element" THEN CountElements(nodes[1].element) ELSE 0)
         + CountElementNodes(Tail(nodes))

\* C9: for an accepted abbreviation the sibling list the top-level expansion
\* returns is empty, and every element the expansion constructed is in the
\* tree under the returned root.
C9_NoSiblingsDropped ==
  pc = "done" =>
    /\ siblings = <<>>
    /\ CountElements(el) = created

\* span>.c+span : three elements constructed, all under the root.
C9_Witness ==
  /\ pc = "done"
  /\ expr = <<Ident("span"), Gt, Dot("c"), Plus>>
  /\ created = 3
  /\ Len(el.child_nodes) = 2

RECURSIVE Operators(_)
\* The number of > and + operators of an abbreviation, those in groups included.
Operators(toks) ==
  IF toks = <<>> THEN 0
  ELSE (CASE toks[1].k \in {"gt", "plus"} -> 1
          [] toks[1].k = "group" -> Operators(toks[1].inner)
          [] OTHER -> 0)
         + Operators(Tail(toks))

\* C10: in the tree of an accepted abbreviation the number of Element nodes is
\* 1 plus the number of > and + operators of the abbreviation: each operator
\* contributes exactly one element.
C10_OneElementPerOperator ==
  pc = "done" => CountElements(el) = 1 + Operators(expr)

(***************************************************************************)
(* C3: ungrouped chains P>e1+e2+...+en                                     *)
(***************************************************************************)
MaxSiblings == 3

\* The runs a chain is built from.
ElementRuns ==
  {<<>>,
   <<Ident("span")>>,
   <<Dot("c"), Hash("i")>>,
   <<Ident("a"), Brace(StrVal("x")), Dot("b")>>,
   <<Bracket(<< <<"width", IntVal(44)>> >>), Brace(IntVal(4))>>}

RECURSIVE JoinWithPlus(_)
JoinWithPlus(runs) ==
  IF Len(runs) = 1 THEN runs[1]
  ELSE (runs[1] \o <<Plus>>) \o JoinWithPlus(Tail(runs))

Chains ==
  {(p \o <<Gt>>) \o JoinWithPlus(es) :
     p \in ElementRuns,
     es \in UNION {[1..n -> ElementRuns] : n \in 1..MaxSiblings}}

InitChain == Start(Chains)

SpecChain == InitChain /\ [][Next]_vars

\* The position of the first token of the kind, 0 when there is none.
FirstOfKind(toks, kind) ==
  LET is == {i \in 1..Len(toks) : toks[i].k = kind}
  IN IF is = {} THEN 0 ELSE CHOOSE i \in is : \A j \in is : i <= j

RECURSIVE SplitAtPlus(_)
SplitAtPlus(toks) ==
  LET i == FirstOfKind(toks, "plus")
  IN IF i = 0 THEN <<toks>>
     ELSE <<SubSeq(toks, 1, i - 1)>> \o SplitAtPlus(Rest(toks, i))

\* toks is P>e1+...+en with P and every ei a run.
IsChain(toks) ==
  LET g == FirstOfKind(toks, "gt")
  IN /\ g > 0
     /\ IsRun(SubSeq(toks, 1, g - 1))
     /\ \A i \in (g + 1)..Len(toks) : toks[i].k \in SimpleKinds \cup {"plus"}

ChainParent(toks) == SubSeq(toks, 1, FirstOfKind(toks, "gt") - 1)

ChainElements(toks) == SplitAtPlus(Rest(toks, FirstOfKind(toks, "gt")))

\* C3: for P>e1+...+en the root carries P's own effects and, after the Text
\* nodes of P's bindings, exactly n children: the elements e1..en in
\* declaration order, each a direct child of the root and each what its own
\* run gives on a fresh element.
C3_ChainChildrenInOrder ==
  (pc = "done" /\ IsChain(expr)) =>
    LET es == ChainElements(expr)
        parent == template(ChainParent(expr)).el
    IN /\ el.name = parent.name
       /\ el.attributes = parent.attributes
       /\ el.child_nodes =
            parent.child_nodes \o [i \in 1..Len(es) |-> Element(template(es[i]).el)]
       /\ \A i \in 1..Len(es) :
            template(es[i]).el.child_nodes = BoundTexts(es[i])

\* span>.c#i+span+a{"x"}.b : three children, in declaration order.
C3_Witness ==
  /\ pc = "done"
  /\ expr = <<Ident("span"), Gt, Dot("c"), Hash("i"), Plus, Ident("span"), Plus,
              Ident("a"), Brace(StrVal("x")), Dot("b")>>
  /\ Len(el.child_nodes) = 3
  /\ el.child_nodes[2] = Element([VirtualElement_new EXCEPT !.name = "span"])
  /\ el.child_nodes[3].element.child_nodes = <<Text("x")>>

(***************************************************************************)
(* C1, C8: the grouped forms E>(G)R                                        *)
(***************************************************************************)
GroupBodies ==
  {<<>>,
   <<Ident("span")>>,
   <<Ident("div"), Gt, Ident("div")>>,
   <<Dot("c"), Brace(IntVal(4))>>,
   <<Ident("a"), Plus, Hash("i")>>}

Prefixes == {<<>>, <<Ident("div")>>, <<Dot("c"), Brace(StrVal("x"))>>}

\* What may follow the group: nothing, tokens for the current element,
\* ungrouped and grouped siblings, a further descent.
Remainders ==
  {<<>>,
   <<Dot("b")>>,
   <<Ident("a"), Brace(StrVal("y"))>>,
   <<Plus, Ident("span")>>,
   <<Brace(IntVal(4)), Plus, Hash("i"), Plus, Ident("a")>>,
   <<Gt, Ident("span")>>}
    \cup {<<Plus, Paren(g)>> : g \in GroupBodies}
    \cup {<<Plus, Paren(g), Dot("b")>> : g \in GroupBodies}
    \cup {<<Plus, Paren(g), Plus, Ident("a")>> : g \in GroupBodies}

Grouped ==
  {(e \o <<Gt, Paren(g)>>) \o r :
     e \in Prefixes, g \in GroupBodies, r \in Remainders}

InitGrouped == Start(Grouped)

SpecGrouped == InitGrouped /\ [][Next]_vars

\* toks is E>(G)R with E a run.
IsChildGroup(toks) ==
  LET g == FirstOfKind(toks, "gt")
  IN /\ g > 0
     /\ IsRun(SubSeq(toks, 1, g - 1))
     /\ FollowedByGroup(Rest(toks, g - 1))

GroupPrefix(toks) == SubSeq(toks, 1, FirstOfKind(toks, "gt") - 1)

GroupBody(toks) == toks[FirstOfKind(toks, "gt") + 1].inner

GroupRemainder(toks) == Rest(toks, FirstOfKind(toks, "gt") + 1)

\* The element nodes among a list of nodes, in order.
ElementChildren(nodes) == SelectSeq(nodes, LAMBDA n : n.type = "Element")

\* The parse of a group's tokens against a fresh default element.
ParsedAlone(toks) == inner_template("not_top_level", toks, VirtualElement_new)

\* toks is P>(G1)+(G2) with P a run and G1, G2 each giving one element.
IsTwoGroups(toks) ==
  /\ IsChildGroup(toks)
  /\ LET r == GroupRemainder(toks)
     IN /\ Len(r) = 2
        /\ r[1].k = "plus"
        /\ r[2].k = "group"
        /\ ParsedAlone(GroupBody(toks)).ok
        /\ ParsedAlone(GroupBody(toks)).sibs = <<>>
        /\ ParsedAlone(r[2].inner).ok
        /\ ParsedAlone(r[2].inner).sibs = <<>>

\* C1: for P>(G1)+(G2) the root's element children are exactly two, in this
\* order: G1 parsed against a fresh default element, then G2 parsed against a
\* fresh default element, so that the sibling made by +(G2) carries what G2's
\* tokens specify.
C1_GroupsBecomeChildren ==
  (pc = "done" /\ IsTwoGroups(expr)) =>
    ElementChildren(el.child_nodes) =
      <<Element(ParsedAlone(GroupBody(expr)).el),
        Element(ParsedAlone(GroupRemainder(expr)[2].inner).el)>>

\* C8: for E>(G)R applied to E, the children E gets are, after those it had,
\* the child built from G, the siblings G's parse returned, the nodes R adds
\* to E, and the siblings R's parse returned; R's name, class, id, attribute
\* and binding tokens act on E, not on the child; and the production returns
\* an empty sibling list.
C8_ChildGroupThenRemainder ==
  (pc = "done" /\ IsChildGroup(expr)) =>
    LET before == template(GroupPrefix(expr)).el
        g == ParsedAlone(GroupBody(expr))
        r == inner_template("not_top_level", GroupRemainder(expr), before)
    IN /\ el.name = r.el.name
       /\ el.attributes = r.el.attributes
       /\ el.child_nodes =
            (((before.child_nodes \o <<Element(g.el)>>) \o g.sibs)
               \o Rest(r.el.child_nodes, Len(before.child_nodes))) \o r.sibs
       /\ siblings = <<>>

\* .c{"x"}>(a+#i){4}+#i+a : after the root's own Text node come the group's
\* child and sibling, then the remainder's Text node and its two siblings; the
\* root keeps its class.
C8_Witness ==
  /\ pc = "done"
  /\ expr = <<Dot("c"), Brace(StrVal("x")), Gt, Paren(<<Ident("a"), Plus, Hash("i")>>),
              Brace(IntVal(4)), Plus, Hash("i"), Plus, Ident("a")>>
  /\ Len(el.child_nodes) = 6
  /\ el.child_nodes[1] = Text("x")
  /\ el.child_nodes[2].element.name = "a"
  /\ el.child_nodes[4] = Text("4")
  /\ el.child_nodes[6].element.name = "a"
  /\ el.attributes["class"] = "c"

(***************************************************************************)
(* The repository's tests, evaluated on the model.                         *)
(***************************************************************************)
TestsPass ==
  /\ template(<<Ident("div")>>).el = VirtualElement_new
  /\ template(<<Ident("a"), Hash("main"), Dot("active"), Dot("red")>>).el
       = [name |-> "a",
          attributes |-> [x \in {"class", "id"} |->
                            IF x = "id" THEN "main" ELSE "active red"],
          child_nodes |-> <<>>]
  /\ template(<<Ident("div"), Brace(StrVal("some inner text")), Brace(IntVal(4))>>).el
       = [VirtualElement_new EXCEPT
            !.child_nodes = <<Text("some inner text"), Text("4")>>]
  /\ template(<<Ident("div"), Bracket(<< <<"width", IntVal(44)>> >>)>>).el
       = [VirtualElement_new EXCEPT !.attributes = [x \in {"width"} |-> "44"]]
  /\ template(<<Ident("div"), Gt, Ident("div")>>).el
       = [VirtualElement_new EXCEPT !.child_nodes = <<Element(VirtualElement_new)>>]
  /\ template(<<Ident("div"), Gt, Ident("div"), Plus, Ident("div")>>).el
       = [VirtualElement_new EXCEPT
            !.child_nodes = <<Element(VirtualElement_new), Element(VirtualElement_new)>>]
  /\ template(<<Ident("div"), Gt, Paren(<<Ident("div"), Gt, Ident("div")>>),
                Plus, Paren(<<Ident("div")>>)>>).el
       = [VirtualElement_new EXCEPT
            !.child_nodes =
               <<Element([VirtualElement_new EXCEPT
                            !.child_nodes = <<Element(VirtualElement_new)>>]),
                 Element(VirtualElement_new)>>]
  /\ ~template(<<Ident("div"), Plus, Ident("div")>>).ok

====
